---- MODULE Spec2Model ----
(***************************************************************************)
(* Composition engine of goviet-ime (backend/internal/engine).             *)
(*                                                                         *)
(* Text is a sequence of runes.  A rune is written as a short ASCII name:  *)
(* plain letters and digits are themselves ("a", "A", "6"), the marked     *)
(* letters are  a^ = a-circumflex, a( = a-breve, e^, o^, o+ = o-horn,      *)
(* u+ = u-horn, d- = d-stroke (upper case: A^ A( E^ O^ O+ U+ D-), the      *)
(* zero-width space U+200B is "ZWSP", and a precomposed vowel with a tone  *)
(* is the vowel followed by the tone sign  :s acute, :f grave, :r hook,    *)
(* :x tilde, :j dot-below  (so "o+:j" is o-horn with dot below).           *)
(***************************************************************************)
EXTENDS Integers, Sequences, FiniteSets, TLC

VARIABLES
    enabled,        \* CompositionEngine.enabled
    inputMethod,    \* CompositionEngine.inputMethod, by Name(): "Telex" / "VNI"
    config,         \* CompositionEngine.config (EngineConfig)
    raw,            \* CompositionEngine.buffer.raw
    syllable,       \* CompositionEngine.buffer.syllable
    lastTransform,  \* CompositionEngine.lastTransform
    result,         \* the ProcessResult of the latest ProcessKey call
    op,             \* the latest call on the engine: its kind and its event
    typed,          \* printable runes processed since the buffer was last cleared
    erased,         \* handled Backspaces that followed them
    phase,          \* "typing", "erasing" or "mixed": shape of the history
    peer,           \* a second CompositionEngine of the same process
    verdict         \* the latest call of ValidateVietnamese and what it returned

vars == <<enabled, inputMethod, config, raw, syllable, lastTransform,
          result, op, typed, erased, phase, peer, verdict>>

(* Bounds of the model *)

MaxRaw == 3

(* Runes, case mapping and character classes *)

breakMarker == "ZWSP"

UpperToLower ==
    [r \in {"A","B","C","D","E","F","G","H","I","J","K","L","M","N","O","P",
            "Q","R","S","T","U","V","W","X","Y","Z",
            "A^","A(","E^","O^","O+","U+","D-"} |->
        CASE r = "A" -> "a" [] r = "B" -> "b" [] r = "C" -> "c" [] r = "D" -> "d"
          [] r = "E" -> "e" [] r = "F" -> "f" [] r = "G" -> "g" [] r = "H" -> "h"
          [] r = "I" -> "i" [] r = "J" -> "j" [] r = "K" -> "k" [] r = "L" -> "l"
          [] r = "M" -> "m" [] r = "N" -> "n" [] r = "O" -> "o" [] r = "P" -> "p"
          [] r = "Q" -> "q" [] r = "R" -> "r" [] r = "S" -> "s" [] r = "T" -> "t"
          [] r = "U" -> "u" [] r = "V" -> "v" [] r = "W" -> "w" [] r = "X" -> "x"
          [] r = "Y" -> "y" [] r = "Z" -> "z"
          [] r = "A^" -> "a^" [] r = "A(" -> "a(" [] r = "E^" -> "e^"
          [] r = "O^" -> "o^" [] r = "O+" -> "o+" [] r = "U+" -> "u+"
          [] r = "D-" -> "d-"]

IsUpper(r) == r \in DOMAIN UpperToLower

ToLower(r) == IF r \in DOMAIN UpperToLower THEN UpperToLower[r] ELSE r

ToUpper(r) ==
    IF \E u \in DOMAIN UpperToLower : UpperToLower[u] = r
    THEN CHOOSE u \in DOMAIN UpperToLower : UpperToLower[u] = r
    ELSE r

LowerStr(s) == [i \in 1..Len(s) |-> ToLower(s[i])]

isMarkedVowel(r) ==
    r \in {"a(","A(","a^","A^","e^","E^","o^","O^","o+","O+","u+","U+"}

isVietnameseVowelRune(r) ==
    ToLower(r) \in {"a","a(","a^","e","e^","i","o","o^","o+","u","u+","y"}

isVietnameseConsonantRune(r) ==
    ToLower(r) \in {"b","c","d","d-","g","h","k","l","m","n","p","q","r","s",
                    "t","v","x"}

validCodas ==
    {<<"c">>, <<"c","h">>, <<"m">>, <<"n">>, <<"n","g">>, <<"n","h">>,
     <<"p">>, <<"t">>}

isValidCoda(s) == LowerStr(s) \in validCodas

isTelexModifier(r) ==
    r \in {"s","S","f","F","r","R","x","X","j","J","z","Z","w","W"}

isVNIModifier(r) == r \in {"0","1","2","3","4","5","6","7","8","9"}

isInputModifier(method, r) ==
    IF method = "VNI" THEN isVNIModifier(r) ELSE isTelexModifier(r)

(* Syllable and its parser *)

EmptySyllable ==
    [Raw |-> <<>>, Onset |-> <<>>, Nucleus |-> <<>>, Coda |-> <<>>,
     ToneMark |-> "ToneNone", VowelMark |-> "VowelNone",
     Consumed |-> 0, ConsumedModifiers |-> 0]

\* runes[i] with the 0-based index of the source
At(runes, i) == runes[i + 1]

SetAt(runes, i, r) == [runes EXCEPT ![i + 1] = r]

\* the case of `like` given to the lower-case rune r
CaseOf(like, r) == IF IsUpper(like) THEN ToUpper(r) ELSE r

RECURSIVE ParseOnset(_, _, _)
ParseOnset(runes, i, onset) ==
    IF i >= Len(runes) THEN [i |-> i, onset |-> onset]
    ELSE LET r == At(runes, i) IN
        IF isVietnameseVowelRune(r) THEN [i |-> i, onset |-> onset]
        ELSE IF r = breakMarker THEN ParseOnset(runes, i + 1, onset)
        ELSE IF /\ r \in {"d", "D"}
                /\ i + 1 < Len(runes)
                /\ At(runes, i + 1) \in {"d", "D"}
             THEN ParseOnset(runes, i + 2,
                             Append(onset, IF r = "d" THEN "d-" ELSE "D-"))
        ELSE IF r \in {"f", "F", "j", "J", "z", "Z"}
             THEN ParseOnset(runes, i + 1, onset)
        ELSE IF isVietnameseConsonantRune(r)
             THEN ParseOnset(runes, i + 1, Append(onset, r))
        ELSE [i |-> i, onset |-> onset]

\* the double-vowel promotion: aa -> a^, ee -> e^, oo -> o^, else "" (no rune)
DoubleVowel(r) ==
    CASE ToLower(r) = "a" -> "a^"
      [] ToLower(r) = "e" -> "e^"
      [] ToLower(r) = "o" -> "o^"
      [] OTHER -> ""

\* the horn/breve modifier w applied to a non-empty nucleus
HornNucleus(nucleus) ==
    LET lastIdx == Len(nucleus) - 1
        last == At(nucleus, lastIdx)
        uo == /\ ToLower(last) = "o"
              /\ Len(nucleus) >= 2
              /\ ToLower(At(nucleus, lastIdx - 1)) = "u"
        nucleusRunes ==
            IF uo THEN SetAt(nucleus, lastIdx - 1,
                             CaseOf(At(nucleus, lastIdx - 1), "u+"))
            ELSE nucleus
        transformed ==
            CASE ToLower(last) = "a" -> "a("
              [] ToLower(last) = "o" -> "o+"
              [] ToLower(last) = "u" -> "u+"
              [] OTHER -> ""
    IN  IF transformed # ""
        THEN [nucleus |-> SetAt(nucleusRunes, lastIdx, CaseOf(last, transformed)),
              consumed |-> 1]
        ELSE [nucleus |-> nucleus, consumed |-> 0]

RECURSIVE ParseNucleus(_, _, _, _, _)
ParseNucleus(runes, i, nucleus, cm, wAsVowel) ==
    IF i >= Len(runes) THEN [i |-> i, nucleus |-> nucleus, cm |-> cm]
    ELSE LET r == At(runes, i) IN
        IF r = breakMarker THEN ParseNucleus(runes, i + 1, nucleus, cm, wAsVowel)
        ELSE IF isVietnameseVowelRune(r) THEN
            IF /\ i + 1 < Len(runes)
               /\ ToLower(At(runes, i + 1)) = ToLower(r)
               /\ At(runes, i + 1) # breakMarker
               /\ DoubleVowel(r) # ""
            THEN ParseNucleus(runes, i + 2,
                              Append(nucleus, CaseOf(r, DoubleVowel(r))),
                              cm, wAsVowel)
            ELSE ParseNucleus(runes, i + 1, Append(nucleus, r), cm, wAsVowel)
        ELSE IF ToLower(r) = "w" THEN
            IF Len(nucleus) = 0 /\ wAsVowel
            THEN ParseNucleus(runes, i + 1,
                              Append(nucleus, IF IsUpper(r) THEN "U+" ELSE "u+"),
                              cm + 1, wAsVowel)
            ELSE IF Len(nucleus) > 0
            THEN LET h == HornNucleus(nucleus)
                 IN  ParseNucleus(runes, i + 1, h.nucleus, cm + h.consumed,
                                  wAsVowel)
            ELSE ParseNucleus(runes, i + 1, nucleus, cm, wAsVowel)
        ELSE [i |-> i, nucleus |-> nucleus, cm |-> cm]

RECURSIVE ParseCoda(_, _, _)
ParseCoda(runes, i, coda) ==
    IF i >= Len(runes) THEN [i |-> i, coda |-> coda]
    ELSE LET r == At(runes, i) IN
        IF isVietnameseConsonantRune(r) THEN
            IF /\ i + 1 < Len(runes)
               /\ isVietnameseConsonantRune(At(runes, i + 1))
               /\ isValidCoda(<<r, At(runes, i + 1)>>)
            THEN ParseCoda(runes, i + 2, coda \o <<r, At(runes, i + 1)>>)
            ELSE IF isValidCoda(<<r>>)
            THEN ParseCoda(runes, i + 1, Append(coda, r))
            ELSE [i |-> i, coda |-> coda]
        ELSE [i |-> i, coda |-> coda]

\* a parser that leaves the nucleus as the keys spelled it
PromoteNever(nucleus, coda) == nucleus

\* i e + coda -> i e^ ;  u o + coda -> u o^
PromoteWithCoda(nucleus, coda) ==
    IF coda # <<>> /\ Len(nucleus) >= 2
    THEN LET first == ToLower(nucleus[1])
             second == ToLower(nucleus[2])
         IN  IF first = "i" /\ second = "e"
             THEN SetAt(nucleus, 1, IF IsUpper(nucleus[2]) THEN "E^" ELSE "e^")
             ELSE IF first = "u" /\ second = "o"
             THEN SetAt(nucleus, 1, IF IsUpper(nucleus[2]) THEN "O^" ELSE "o^")
             ELSE nucleus
    ELSE nucleus

RECURSIVE SkipConsumed(_, _, _, _, _)
SkipConsumed(runes, i, consumedSoFar, consumedModifiers, method) ==
    IF /\ i < Len(runes)
       /\ isInputModifier(method, At(runes, i))
       /\ consumedSoFar < consumedModifiers
    THEN SkipConsumed(runes, i + 1, consumedSoFar + 1, consumedModifiers, method)
    ELSE i

\* the syllable rebuilt from raw, keeping the tone and the vowel mark of syl
updateSyllableStructure(rawRunes, syl, cfg, method) ==
    IF rawRunes = <<>> THEN EmptySyllable
    ELSE LET cm0 == IF syl.ToneMark # "ToneNone" THEN 1 ELSE 0
             Parsed(o, n, c) ==
                 [Raw |-> rawRunes,
                  Onset |-> o.onset,
                  Nucleus |-> PromoteWithCoda(n.nucleus, c.coda),
                  Coda |-> c.coda,
                  ToneMark |-> syl.ToneMark,
                  VowelMark |-> syl.VowelMark,
                  Consumed |-> SkipConsumed(rawRunes, c.i, 0, n.cm, method),
                  ConsumedModifiers |-> n.cm]
             WithNucleus(o, n) == Parsed(o, n, ParseCoda(rawRunes, n.i, <<>>))
             WithOnset(o) ==
                 WithNucleus(o, ParseNucleus(rawRunes, o.i, <<>>, cm0,
                                             cfg.EnableWAsVowel))
         IN  WithOnset(ParseOnset(rawRunes, 0, <<>>))

(* Output composer (UnicodeFormat) *)

ToneSign ==
    [t \in {"ToneSac", "ToneHuyen", "ToneHoi", "ToneNga", "ToneNang"} |->
        CASE t = "ToneSac" -> ":s"
          [] t = "ToneHuyen" -> ":f"
          [] t = "ToneHoi" -> ":r"
          [] t = "ToneNga" -> ":x"
          [] t = "ToneNang" -> ":j"]

\* the vowels that have a row in the tone table
unicodeVowelTones ==
    {"a","A","a(","A(","a^","A^","e","E","e^","E^","i","I",
     "o","O","o^","O^","o+","O+","u","U","u+","U+","y","Y"}

ApplyTone(vowel, tone) ==
    IF vowel \in unicodeVowelTones /\ tone \in DOMAIN ToneSign
    THEN vowel \o ToneSign[tone]
    ELSE vowel

\* base rune -> vowel mark -> marked rune; "" where the table has no entry
unicodeVowelMarks(r, mark) ==
    CASE ToLower(r) = "a" /\ r \in {"a", "A"} /\ mark = "VowelBreve" -> CaseOf(r, "a(")
      [] ToLower(r) = "a" /\ r \in {"a", "A"} /\ mark = "VowelHat" -> CaseOf(r, "a^")
      [] r \in {"e", "E"} /\ mark = "VowelHat" -> CaseOf(r, "e^")
      [] r \in {"o", "O"} /\ mark = "VowelHat" -> CaseOf(r, "o^")
      [] r \in {"o", "O"} /\ mark = "VowelHorn" -> CaseOf(r, "o+")
      [] r \in {"u", "U"} /\ mark = "VowelHorn" -> CaseOf(r, "u+")
      [] r \in {"d", "D"} /\ mark = "VowelDBar" -> CaseOf(r, "d-")
      [] OTHER -> ""

Marked(nucleus) == {i \in 0..(Len(nucleus) - 1) : isMarkedVowel(At(nucleus, i))}

Min(S) == CHOOSE x \in S : \A y \in S : x <= y

findTonePosition(nucleus, coda) ==
    LET n == Len(nucleus)
        first == nucleus[1]
        second == nucleus[2]
    IN  IF n = 0 THEN 0
        ELSE IF n = 1 THEN 0
        ELSE IF Marked(nucleus) # {} THEN Min(Marked(nucleus))
        ELSE IF /\ n = 2 /\ coda = <<>>
                /\ first \in {"o", "O"}
                /\ second \in {"a", "A", "a(", "A(", "e", "E"}
             THEN 1
        ELSE IF /\ n = 2 /\ coda = <<>>
                /\ first \in {"u", "U"}
                /\ second \in {"y", "Y"}
             THEN 1
        ELSE IF /\ coda = <<>>
                /\ first \in {"i", "I"}
                /\ second \in {"a", "A"}
             THEN 0
        ELSE IF /\ coda = <<>>
                /\ first \in {"u", "U", "u+", "U+"}
                /\ second \in {"a", "A"}
             THEN 1
        ELSE IF coda # <<>> /\ n = 2 THEN 0
        ELSE IF coda # <<>> /\ n >= 3 THEN 1
        ELSE IF n = 2 THEN 0
        ELSE 1

Compose(syl) ==
    IF syl.Nucleus = <<>> THEN syl.Raw
    ELSE LET nucleus == syl.Nucleus
             tonePos == findTonePosition(nucleus, syl.Coda)
             modified(i) ==
                 IF unicodeVowelMarks(At(nucleus, i), syl.VowelMark) # ""
                 THEN unicodeVowelMarks(At(nucleus, i), syl.VowelMark)
                 ELSE At(nucleus, i)
         IN  syl.Onset
             \o [k \in 1..Len(nucleus) |->
                    IF k - 1 = tonePos
                    THEN ApplyTone(modified(k - 1), syl.ToneMark)
                    ELSE modified(k - 1)]
             \o syl.Coda

\* strings.ReplaceAll(s, breakMarker, "")
RECURSIVE StripMarker(_)
StripMarker(s) ==
    IF s = <<>> THEN <<>>
    ELSE IF s[1] = breakMarker THEN StripMarker(Tail(s))
    ELSE <<s[1]>> \o StripMarker(Tail(s))

\* the runes of raw from index i on, without the first consumed modifiers
RECURSIVE Unparsed(_, _, _, _, _)
Unparsed(runes, i, modifierIdx, consumedModifiers, method) ==
    IF i >= Len(runes) THEN <<>>
    ELSE IF /\ isInputModifier(method, At(runes, i))
            /\ modifierIdx < consumedModifiers
    THEN Unparsed(runes, i + 1, modifierIdx + 1, consumedModifiers, method)
    ELSE <<At(runes, i)>>
         \o Unparsed(runes, i + 1, modifierIdx, consumedModifiers, method)

\* an output that is not filtered
keepBreakers(text) == text

\* the pattern breakers filtered out of the text returned
filterBreakers(text) == StripMarker(text)

GetPreedit(rawRunes, syl, method) ==
    IF rawRunes = <<>> THEN <<>>
    ELSE LET Filtered(composed) ==
                 IF composed # <<>> THEN filterBreakers(composed)
                 ELSE filterBreakers(rawRunes)
         IN  Filtered(Compose(syl)
                      \o (IF syl.Consumed < Len(rawRunes) /\ syl.Consumed >= 0
                          THEN Unparsed(rawRunes, syl.Consumed, 0,
                                        syl.ConsumedModifiers, method)
                          ELSE <<>>))

(* Syllable validator *)

validInitials ==
    {<<"b">>, <<"c">>, <<"d">>, <<"d-">>, <<"g">>, <<"h">>, <<"k">>, <<"l">>,
     <<"m">>, <<"n">>, <<"p">>, <<"q">>, <<"r">>, <<"s">>, <<"t">>, <<"v">>,
     <<"x">>,
     <<"c","h">>, <<"g","h">>, <<"g","i">>, <<"k","h">>, <<"n","g">>,
     <<"n","h">>, <<"p","h">>, <<"q","u">>, <<"t","h">>, <<"t","r">>,
     <<"n","g","h">>}

\* the finals without the semivowels
validFinalsNoGlide ==
    {<<"c">>, <<"m">>, <<"n">>, <<"p">>, <<"t">>, <<"c","h">>, <<"n","g">>,
     <<"n","h">>}

validFinals ==
    {<<"c">>, <<"m">>, <<"n">>, <<"p">>, <<"t">>,
     <<"c","h">>, <<"n","g">>, <<"n","h">>,
     <<"i">>, <<"y">>, <<"o">>, <<"u">>}

spellingRules ==
    {<<"c","e">>, <<"c","i">>, <<"c","y">>,
     <<"k","a">>, <<"k","o">>, <<"k","u">>,
     <<"g","e">>,
     <<"n","g","e">>, <<"n","g","i">>,
     <<"g","h","a">>, <<"g","h","o">>, <<"g","h","u">>,
     <<"n","g","h","a">>, <<"n","g","h","o">>, <<"n","g","h","u">>}

isValidInitial(s) ==
    \/ s = <<>>
    \/ s \in validInitials
    \/ /\ Len(s) = 1
       /\ s[1] \in {"b","c","d","g","h","k","l","m","n","p","q","r","s","t",
                    "v","x"}

ValidateVietnamese(onset, nucleus, coda) ==
    LET onsetLower ==
            [i \in 1..Len(onset) |->
                IF ToLower(onset[i]) = "d-" THEN "d" ELSE ToLower(onset[i])]
    IN  IF nucleus = <<>> THEN [Valid |-> FALSE, Reason |-> "no_vowel"]
        ELSE IF onset # <<>> /\ ~isValidInitial(onsetLower)
        THEN [Valid |-> FALSE, Reason |-> "invalid_initial"]
        ELSE IF coda # <<>> /\ LowerStr(coda) \notin validFinals
        THEN [Valid |-> FALSE, Reason |-> "invalid_final"]
        ELSE IF /\ onset # <<>>
                /\ Append(LowerStr(onset), ToLower(nucleus[1])) \in spellingRules
        THEN [Valid |-> FALSE, Reason |-> "spelling_rule_violation"]
        ELSE [Valid |-> TRUE, Reason |-> ""]

(* Input-method translators *)

NoResult == [transformed |-> <<>>, tone |-> "ToneNone",
             vowelMark |-> "VowelNone", consumed |-> FALSE]

Literal(char) == [NoResult EXCEPT !.transformed = <<char>>]

telexToneKeys ==
    [k \in {"s", "f", "r", "x", "j", "z"} |->
        CASE k = "s" -> "ToneSac"
          [] k = "f" -> "ToneHuyen"
          [] k = "r" -> "ToneHoi"
          [] k = "x" -> "ToneNga"
          [] k = "j" -> "ToneNang"
          [] k = "z" -> "ToneNone"]

\* o -> o+, u -> u+, a -> a( in either case; "" for any other rune
telexHornPatterns(r) ==
    CASE r \in {"o", "O"} -> CaseOf(r, "o+")
      [] r \in {"u", "U"} -> CaseOf(r, "u+")
      [] r \in {"a", "A"} -> CaseOf(r, "a(")
      [] OTHER -> ""

\* the pair lastRaw char as a double-letter pattern; result "" when it is none
telexDoublePatterns(lastRaw, char) ==
    IF ~(lastRaw \in {"a","A","e","E","o","O","d","D"}
         /\ char \in {"a","A","e","E","o","O","d","D"}
         /\ ToLower(lastRaw) = ToLower(char))
    THEN [result |-> "", mark |-> "VowelNone"]
    ELSE CASE ToLower(char) = "a" ->
                [result |-> CaseOf(lastRaw, "a^"), mark |-> "VowelHat"]
           [] ToLower(char) = "e" ->
                [result |-> CaseOf(lastRaw, "e^"), mark |-> "VowelHat"]
           [] ToLower(char) = "o" ->
                [result |-> CaseOf(lastRaw, "o^"), mark |-> "VowelHat"]
           [] ToLower(char) = "d" ->
                [result |-> CaseOf(lastRaw, "d-"), mark |-> "VowelDBar"]

TelexIsToneKey(char) == ToLower(char) \in DOMAIN telexToneKeys

TelexProcessChar(char, current) ==
    LET lower == ToLower(char)
        nucleus == current.Nucleus
        lastVowel == At(nucleus, Len(nucleus) - 1)
        lastRaw == At(current.Raw, Len(current.Raw) - 1)
    IN  IF TelexIsToneKey(char) /\ nucleus # <<>>
        THEN [NoResult EXCEPT !.tone = telexToneKeys[lower], !.consumed = TRUE]
        ELSE IF lower = "w" /\ nucleus # <<>> /\ telexHornPatterns(lastVowel) # ""
        THEN [transformed |-> <<telexHornPatterns(lastVowel)>>,
              tone |-> "ToneNone", vowelMark |-> "VowelHorn", consumed |-> TRUE]
        ELSE IF lower = "w" /\ current.Raw # <<>>
                /\ telexHornPatterns(lastRaw) # ""
        THEN [transformed |-> <<telexHornPatterns(lastRaw)>>,
              tone |-> "ToneNone", vowelMark |-> "VowelHorn", consumed |-> TRUE]
        ELSE IF current.Raw # <<>>
                /\ telexDoublePatterns(lastRaw, char).result # ""
        THEN [transformed |-> <<telexDoublePatterns(lastRaw, char).result>>,
              tone |-> "ToneNone",
              vowelMark |-> telexDoublePatterns(lastRaw, char).mark,
              consumed |-> TRUE]
        ELSE Literal(char)

vniToneKeys ==
    [k \in {"1", "2", "3", "4", "5", "0"} |->
        CASE k = "1" -> "ToneSac"
          [] k = "2" -> "ToneHuyen"
          [] k = "3" -> "ToneHoi"
          [] k = "4" -> "ToneNga"
          [] k = "5" -> "ToneNang"
          [] k = "0" -> "ToneNone"]

vniVowelKeys ==
    [k \in {"6", "7", "8", "9"} |->
        CASE k = "6" -> "VowelHat"
          [] k = "7" -> "VowelHorn"
          [] k = "8" -> "VowelBreve"
          [] k = "9" -> "VowelDBar"]

\* base rune -> vowel mark -> result; "" where the table has no entry
vniTransformations(r, mark) ==
    CASE r \in {"a", "A"} /\ mark = "VowelHat" -> CaseOf(r, "a^")
      [] r \in {"a", "A"} /\ mark = "VowelBreve" -> CaseOf(r, "a(")
      [] r \in {"e", "E"} /\ mark = "VowelHat" -> CaseOf(r, "e^")
      [] r \in {"o", "O"} /\ mark = "VowelHat" -> CaseOf(r, "o^")
      [] r \in {"o", "O"} /\ mark = "VowelHorn" -> CaseOf(r, "o+")
      [] r \in {"u", "U"} /\ mark = "VowelHorn" -> CaseOf(r, "u+")
      [] r \in {"d", "D"} /\ mark = "VowelDBar" -> CaseOf(r, "d-")
      [] OTHER -> ""

VNIIsToneKey(char) == char \in DOMAIN vniToneKeys

Max(S) == CHOOSE x \in S : \A y \in S : x >= y

\* 0-based positions of the runes of s that satisfy the mark's transformation
Targets(s, mark) ==
    {i \in 0..(Len(s) - 1) : vniTransformations(At(s, i), mark) # ""}

VNIProcessChar(char, current) ==
    IF VNIIsToneKey(char) THEN
        IF current.Nucleus # <<>>
        THEN [NoResult EXCEPT !.tone = vniToneKeys[char], !.consumed = TRUE]
        ELSE Literal(char)
    ELSE IF char \in DOMAIN vniVowelKeys THEN
        LET mark == vniVowelKeys[char]
            onset == current.Onset
            nucleus == current.Nucleus
            n == Len(nucleus)
            ds == {i \in 0..(Len(onset) - 1) : At(onset, i) \in {"d", "D"}}
        IN  IF mark = "VowelDBar" THEN
                IF ds # {}
                THEN [transformed |-> <<CaseOf(At(onset, Min(ds)), "d-")>>,
                      tone |-> "ToneNone", vowelMark |-> "VowelDBar",
                      consumed |-> TRUE]
                ELSE Literal(char)
            ELSE IF /\ nucleus # <<>>
                    /\ mark = "VowelHorn"
                    /\ n >= 2
                    /\ ToLower(At(nucleus, n - 2)) = "u"
                    /\ ToLower(At(nucleus, n - 1)) = "o"
            THEN [transformed |->
                      [k \in 1..n |->
                          IF k - 1 = n - 2 THEN CaseOf(nucleus[k], "u+")
                          ELSE IF k - 1 = n - 1 THEN CaseOf(nucleus[k], "o+")
                          ELSE nucleus[k]],
                  tone |-> "ToneNone", vowelMark |-> "VowelHorn",
                  consumed |-> TRUE]
            ELSE IF nucleus # <<>> /\ Targets(nucleus, mark) # {}
            THEN [transformed |->
                      <<vniTransformations(
                            At(nucleus, Max(Targets(nucleus, mark))), mark)>>,
                  tone |-> "ToneNone", vowelMark |-> mark, consumed |-> TRUE]
            ELSE IF current.Raw # <<>> /\ Targets(current.Raw, mark) # {}
            THEN [transformed |->
                      <<vniTransformations(
                            At(current.Raw, Max(Targets(current.Raw, mark))),
                            mark)>>,
                  tone |-> "ToneNone", vowelMark |-> mark, consumed |-> TRUE]
            ELSE Literal(char)
    ELSE Literal(char)

\* InputMethod.ProcessChar / IsToneKey, dispatched on the method of the session
ProcessChar(method, char, current) ==
    IF method = "VNI" THEN VNIProcessChar(char, current)
    ELSE TelexProcessChar(char, current)

IsToneKey(method, char) ==
    IF method = "VNI" THEN VNIIsToneKey(char) ELSE TelexIsToneKey(char)

(* Composition controller *)

NoTransform == [Key |-> "NUL", Type |-> "TransformNone", Original |-> <<>>]

\* the buffer and the undo record after Reset()
EmptyBuffer ==
    [raw |-> <<>>, syllable |-> EmptySyllable, lastTransform |-> NoTransform]

\* updateSyllableStructure on the buffer st
Reparse(st, cfg, method) ==
    [st EXCEPT !.syllable = updateSyllableStructure(st.raw, st.syllable, cfg, method)]

shouldTransform(syl) ==
    /\ syl.Nucleus # <<>>
    /\ ValidateVietnamese(syl.Onset, syl.Nucleus, syl.Coda).Valid

applyVowelMark(syl, mark, transformed) ==
    LET s1 == [syl EXCEPT !.VowelMark = mark]
        onset == s1.Onset
        rawRunes == s1.Raw
        nucleus == s1.Nucleus
    IN  IF mark = "VowelDBar" /\ Len(transformed) > 0 THEN
            IF Len(onset) > 0 THEN
                IF At(onset, Len(onset) - 1) \in {"d", "D"}
                THEN [s1 EXCEPT !.Onset = SetAt(onset, Len(onset) - 1, transformed[1])]
                ELSE s1
            ELSE IF rawRunes # <<>> /\ At(rawRunes, Len(rawRunes) - 1) \in {"d", "D"}
            THEN [s1 EXCEPT !.Raw = SetAt(rawRunes, Len(rawRunes) - 1, transformed[1])]
            ELSE s1
        ELSE IF Len(transformed) > 0 /\ Len(nucleus) > 0
        THEN [s1 EXCEPT !.Nucleus = SetAt(nucleus, Len(nucleus) - 1, transformed[1])]
        ELSE s1

\* the runes of the raw buffer after a VNI vowel-mark key
VNIRewrite(runes, mark, transformed) ==
    LET ds == {i \in 0..(Len(runes) - 1) : At(runes, i) \in {"d", "D"}}
        targetTransformed == transformed[1]
        targetBases ==
            CASE ToLower(targetTransformed) = "a^" -> {"a", "A"}
              [] ToLower(targetTransformed) = "e^" -> {"e", "E"}
              [] ToLower(targetTransformed) = "o^" -> {"o", "O"}
              [] ToLower(targetTransformed) = "o+" -> {"o", "O"}
              [] ToLower(targetTransformed) = "u+" -> {"u", "U"}
              [] ToLower(targetTransformed) = "a(" -> {"a", "A"}
              [] OTHER -> {}
        bs == {i \in 0..(Len(runes) - 1) : At(runes, i) \in targetBases}
        uos == {i \in 0..(Len(runes) - 2) :
                    /\ ToLower(At(runes, i)) = "u"
                    /\ ToLower(At(runes, i + 1)) = "o"}
    IN  IF mark = "VowelDBar" THEN
            IF ds # {} THEN SetAt(runes, Max(ds), transformed[1]) ELSE runes
        ELSE IF Len(transformed) = 1 THEN
            IF bs # {}
            THEN SetAt(runes, Max(bs),
                       IF IsUpper(At(runes, Max(bs)))
                       THEN ToUpper(targetTransformed)
                       ELSE targetTransformed)
            ELSE runes
        ELSE IF uos # {}
        THEN SetAt(SetAt(runes, Min(uos), CaseOf(At(runes, Min(uos)), "u+")),
                   Min(uos) + 1, CaseOf(At(runes, Min(uos) + 1), "o+"))
        ELSE runes

applyVNITransformation(st, mark, transformed) ==
    IF Len(transformed) = 0
    THEN [st EXCEPT !.syllable.VowelMark = mark]
    ELSE [st EXCEPT !.syllable.VowelMark = mark,
                    !.raw = VNIRewrite(st.raw, mark, transformed)]

revertWAsVowel(st, char, cfg, method) ==
    Reparse([st EXCEPT !.raw = Append(st.raw, char),
                       !.syllable.Nucleus = <<>>,
                       !.syllable.VowelMark = "VowelNone"], cfg, method)

\* a tone revert that drops the key pressed again
restoreNothing(newRaw, char) == newRaw

\* the raw buffer after a tone revert: the literal key restored
restoreLiteral(newRaw, char) == Append(newRaw, char)

\* a mark revert that writes the key without the break marker
joinPattern(newRaw, char) == Append(newRaw, char)

\* the raw buffer after a mark or stroke revert: the pattern broken
breakPattern(newRaw, char) == newRaw \o <<breakMarker, char>>

\* [done |-> the revert was performed, st |-> the buffer afterwards]
checkDoubleKeyRevert(st, char, cfg, method) ==
    LET last == st.lastTransform
        runes == st.raw
        newRaw == SubSeq(runes, 1, Len(runes) - 1)
        kept == [done |-> FALSE, st |-> st]
        Reverted(next) ==
            [done |-> TRUE, st |-> [next EXCEPT !.lastTransform = NoTransform]]
    IN  IF last.Type = "TransformNone" THEN kept
        ELSE IF ToLower(last.Key) # ToLower(char) THEN kept
        ELSE IF Len(runes) = 0 THEN kept
        ELSE IF last.Type \in {"TransformTone", "TransformVowelMark",
                               "TransformStroke"}
        THEN Reverted(Reparse(
                 IF last.Type = "TransformTone"
                 THEN [st EXCEPT !.syllable.ToneMark = "ToneNone",
                                 !.raw = restoreLiteral(newRaw, char)]
                 ELSE [st EXCEPT !.syllable.VowelMark = "VowelNone",
                                 !.raw = breakPattern(newRaw, char)],
                 cfg, method))
        ELSE IF last.Type = "TransformWAsVowel"
        THEN Reverted(revertWAsVowel(st, char, cfg, method))
        ELSE kept

\* [done |-> w was taken as the vowel u+, st |-> the buffer afterwards]
tryWAsVowel(st, char, cfg, method) ==
    LET syl == st.syllable
        testNucleus == IF IsUpper(char) THEN <<"U+">> ELSE <<"u+">>
    IN  IF syl.Nucleus # <<>> THEN [done |-> FALSE, st |-> st]
        ELSE IF ~ValidateVietnamese(syl.Onset, testNucleus, syl.Coda).Valid
        THEN [done |-> FALSE, st |-> st]
        ELSE [done |-> TRUE,
              st |-> [Reparse([st EXCEPT !.raw = Append(st.raw, char),
                                         !.syllable.Nucleus = testNucleus,
                                         !.syllable.VowelMark = "VowelHorn"],
                              cfg, method)
                      EXCEPT !.lastTransform =
                          [Key |-> char, Type |-> "TransformWAsVowel",
                           Original |-> <<>>]]]

processCharInternal(st, char, cfg, method) ==
    Reparse([st EXCEPT !.raw = Append(st.raw, char)], cfg, method)

\* the consumed branch of processKeyInternal, once validation has passed
ApplyConsumed(st, char, t, cfg, method) ==
    LET applied ==
            IF method = "VNI" /\ Len(t.transformed) > 0
            THEN applyVNITransformation(st, t.vowelMark, t.transformed)
            ELSE [st EXCEPT
                    !.syllable = applyVowelMark(st.syllable, t.vowelMark,
                                                t.transformed),
                    !.raw = Append(st.raw, char)]
        tracked ==
            IF t.vowelMark = "VowelDBar"
            THEN [Key |-> char, Type |-> "TransformStroke",
                  Original |-> st.syllable.Onset]
            ELSE [Key |-> char, Type |-> "TransformVowelMark",
                  Original |-> st.syllable.Nucleus]
    IN  Reparse(
            IF IsToneKey(method, char) THEN
                [st EXCEPT
                    !.syllable.ToneMark =
                        IF st.syllable.ToneMark = t.tone /\ t.tone # "ToneNone"
                        THEN "ToneNone" ELSE t.tone,
                    !.lastTransform =
                        [Key |-> char, Type |-> "TransformTone", Original |-> <<>>],
                    !.raw = Append(st.raw, char)]
            ELSE IF t.vowelMark # "VowelNone" \/ Len(t.transformed) > 0
            THEN [applied EXCEPT !.lastTransform = tracked]
            ELSE [st EXCEPT !.raw = Append(st.raw, char)],
            cfg, method)

processKeyInternal(st, char, cfg, method) ==
    LET Literally(next) == [next EXCEPT !.lastTransform = NoTransform]
        Unconsumed(w) ==
            IF cfg.EnableWAsVowel /\ ToLower(char) = "w" /\ w.done THEN w.st
            ELSE Literally(processCharInternal(st, char, cfg, method))
        Translated(t) ==
            IF t.consumed THEN
                IF cfg.EnableValidation /\ ~shouldTransform(st.syllable)
                THEN Literally(Reparse([st EXCEPT !.raw = Append(st.raw, char)],
                                       cfg, method))
                ELSE ApplyConsumed(st, char, t, cfg, method)
            ELSE Unconsumed(tryWAsVowel(st, char, cfg, method))
        Checked(rev) ==
            IF cfg.EnableDoubleKeyRevert /\ rev.done THEN rev.st
            ELSE Translated(ProcessChar(method, char, st.syllable))
    IN  Checked(checkDoubleKeyRevert(st, char, cfg, method))

\* handleBackspace's replay: processKeyInternal over the runes from a reset buffer
RECURSIVE Replay(_, _, _, _)
Replay(st, runes, cfg, method) ==
    IF runes = <<>> THEN st
    ELSE Replay(processKeyInternal(st, Head(runes), cfg, method), Tail(runes),
                cfg, method)

(* Key events *)

KeyBackspace == 65288
KeyReturn == 65293
KeyEscape == 65307
KeySpace == 32
KeyTab == 65289
KeyDelete == 65535
KeyLeft == 65361
UnicodeKeysymBase == 16777216

ModShift == 1
ModLock == 2
ModControl == 4
ModMod1 == 8
ModMod4 == 64

\* a modifier test by magnitude: any bit at or above the mask counts
HasModAbove(modifiers, bit) == modifiers >= bit

\* modifiers & bit != 0, for a single-bit mask
HasMod(modifiers, bit) == (modifiers \div bit) % 2 = 1

\* the rune with a given code point, for the code points of the model
Chr ==
    (97 :> "a") @@ (98 :> "b") @@ (99 :> "c") @@ (100 :> "d") @@ (101 :> "e") @@
    (102 :> "f") @@ (103 :> "g") @@ (104 :> "h") @@ (105 :> "i") @@ (106 :> "j") @@
    (107 :> "k") @@ (108 :> "l") @@ (109 :> "m") @@ (110 :> "n") @@ (111 :> "o") @@
    (112 :> "p") @@ (113 :> "q") @@ (114 :> "r") @@ (115 :> "s") @@ (116 :> "t") @@
    (117 :> "u") @@ (118 :> "v") @@ (119 :> "w") @@ (120 :> "x") @@ (121 :> "y") @@
    (122 :> "z") @@ (65 :> "A") @@ (66 :> "B") @@ (67 :> "C") @@ (68 :> "D") @@
    (69 :> "E") @@ (70 :> "F") @@ (71 :> "G") @@ (72 :> "H") @@ (73 :> "I") @@
    (74 :> "J") @@ (75 :> "K") @@ (76 :> "L") @@ (77 :> "M") @@ (78 :> "N") @@
    (79 :> "O") @@ (80 :> "P") @@ (81 :> "Q") @@ (82 :> "R") @@ (83 :> "S") @@
    (84 :> "T") @@ (85 :> "U") @@ (86 :> "V") @@ (87 :> "W") @@ (88 :> "X") @@
    (89 :> "Y") @@ (90 :> "Z") @@ (48 :> "0") @@ (49 :> "1") @@ (50 :> "2") @@
    (51 :> "3") @@ (52 :> "4") @@ (53 :> "5") @@ (54 :> "6") @@ (55 :> "7") @@
    (56 :> "8") @@ (57 :> "9") @@ (46 :> ".") @@ (8203 :> breakMarker)

Ord(r) == CHOOSE cp \in DOMAIN Chr : Chr[cp] = r

\* a mapping that does not decode the keysyms of the Unicode range
KeysymToRuneLatin(keysym) ==
    IF keysym >= 32 /\ keysym <= 126 THEN keysym
    ELSE IF keysym >= 160 /\ keysym <= 255 THEN keysym
    ELSE 0

\* the code point of a keysym, 0 when it has none
KeysymToRune(keysym) ==
    IF keysym >= 32 /\ keysym <= 126 THEN keysym
    ELSE IF keysym >= 160 /\ keysym <= 255 THEN keysym
    ELSE IF keysym >= UnicodeKeysymBase THEN keysym - UnicodeKeysymBase
    ELSE 0

\* the printable keys typed where only typing and Backspace are explored
Letters == {"a", "o", "d", "n", "w", "s", "1", "6"}

TypingKeySyms == {Ord(r) : r \in Letters} \cup {KeyBackspace}

\* the keys pressed where every special key and chord is explored
FewLetters == {"a", "s", "6"}

KeySyms ==
    {Ord(r) : r \in FewLetters}
    \cup {KeyBackspace, KeyReturn, KeyEscape, KeySpace, KeyTab, KeyDelete}
    \cup {KeyLeft, UnicodeKeysymBase + Ord("a")}

Modifiers == {0, ModControl, ModMod1}

ToneRules == {"ToneRuleOld", "ToneRuleNew"}

\* the configurations the tests set: the switches, the tone rule left alone
Configs ==
    [ToneRule : {"ToneRuleOld"},
     EnableValidation : BOOLEAN, EnableDoubleKeyRevert : BOOLEAN,
     EnableWAsVowel : BOOLEAN]

DefaultConfig ==
    [ToneRule |-> "ToneRuleOld",
     EnableValidation |-> TRUE, EnableDoubleKeyRevert |-> TRUE,
     EnableWAsVowel |-> TRUE]

NoReply == [Handled |-> FALSE, CommitText |-> <<>>, Preedit |-> <<>>]

\* a commit that leaves the composition in the buffer
CommitWithoutReset(st, method, handled, suffix) ==
    [st |-> st,
     result |-> [Handled |-> handled,
                 CommitText |-> GetPreedit(st.raw, st.syllable, method) \o suffix,
                 Preedit |-> <<>>],
     special |-> TRUE]

\* a commit that resets and goes on showing what it has committed
CommitAndShow(st, method, handled, suffix) ==
    [st |-> EmptyBuffer,
     result |-> [Handled |-> handled,
                 CommitText |-> GetPreedit(st.raw, st.syllable, method) \o suffix,
                 Preedit |-> GetPreedit(st.raw, st.syllable, method)],
     special |-> TRUE]

\* commit the preedit (plus suffix) and reset
CommitAndReset(st, method, handled, suffix) ==
    [st |-> EmptyBuffer,
     result |-> [Handled |-> handled,
                 CommitText |-> GetPreedit(st.raw, st.syllable, method) \o suffix,
                 Preedit |-> <<>>],
     special |-> TRUE]

handleBackspace(st, cfg, method) ==
    LET Replayed(next) ==
            [st |-> next,
             result |-> [Handled |-> TRUE, CommitText |-> <<>>,
                         Preedit |-> GetPreedit(next.raw, next.syllable, method)],
             special |-> TRUE]
    IN  IF Len(st.raw) = 0
        THEN [st |-> st, result |-> NoReply, special |-> TRUE]
        ELSE Replayed(Replay(EmptyBuffer, SubSeq(st.raw, 1, Len(st.raw) - 1),
                             cfg, method))

\* the key is not dealt with by handleSpecialKey (its second return value false)
PassOn(st) == [st |-> st, result |-> NoReply, special |-> FALSE]

\* a Space that commits the composition alone
handleSpaceBare(st, method) == CommitAndReset(st, method, TRUE, <<>>)

\* case KeySpace: commit the composition and a space
handleSpace(st, method) == CommitAndReset(st, method, TRUE, <<" ">>)

\* case KeyReturn: commit when there is a preedit
handleReturn(st, method) ==
    IF GetPreedit(st.raw, st.syllable, method) # <<>>
    THEN CommitAndReset(st, method, TRUE, <<>>)
    ELSE PassOn(st)

\* case KeyEscape: cancel the composition
handleEscape(st) ==
    [st |-> EmptyBuffer,
     result |-> [NoReply EXCEPT !.Handled = TRUE],
     special |-> TRUE]

\* a Tab that commits whatever the buffer holds, nothing included
handleTabAlways(st, method) == CommitAndReset(st, method, TRUE, <<>>)

\* case KeyTab: commit the composition
handleTab(st, method) ==
    IF Len(st.raw) > 0
    THEN CommitAndReset(st, method, TRUE, <<>>)
    ELSE PassOn(st)

\* a Delete that is taken from the application
handleDeleteHandled(st, method) ==
    IF Len(st.raw) > 0
    THEN CommitAndReset(st, method, TRUE, <<>>)
    ELSE PassOn(st)

\* case KeyDelete: commit and leave the key to the application
handleDelete(st, method) ==
    IF Len(st.raw) > 0
    THEN CommitAndReset(st, method, FALSE, <<>>)
    ELSE PassOn(st)

\* special: the key was dealt with here (second return value of the source)
handleSpecialKey(st, keysym, cfg, method) ==
    CASE keysym = KeyBackspace -> handleBackspace(st, cfg, method)
      [] keysym = KeySpace -> handleSpace(st, method)
      [] keysym = KeyReturn -> handleReturn(st, method)
      [] keysym = KeyEscape -> handleEscape(st)
      [] keysym = KeyTab -> handleTab(st, method)
      [] keysym = KeyDelete -> handleDelete(st, method)
      [] OTHER -> PassOn(st)

processChar(st, char, cfg, method) ==
    LET Processed(next) ==
            [st |-> next,
             result |-> [Handled |-> TRUE, CommitText |-> <<>>,
                         Preedit |-> GetPreedit(next.raw, next.syllable, method)]]
    IN  Processed(processKeyInternal(st, char, cfg, method))

\* a chord that drops the composition instead of committing it
handleChordSilent(st, method) == [st |-> EmptyBuffer, result |-> NoReply]

\* ProcessKey's branch for an event with Control or Alt: commit and pass on
handleChord(st, method) ==
    IF Len(st.raw) > 0
    THEN [st |-> EmptyBuffer,
          result |-> [Handled |-> FALSE,
                      CommitText |-> GetPreedit(st.raw, st.syllable, method),
                      Preedit |-> <<>>]]
    ELSE [st |-> st, result |-> NoReply]

\* CompositionEngine.ProcessKey: the buffer afterwards and the reply
ProcessKeyResult(st, isEnabled, cfg, method, keysym, modifiers) ==
    LET char == KeysymToRune(keysym)
        Dispatched(sp) ==
            IF sp.special THEN [st |-> sp.st, result |-> sp.result]
            ELSE IF HasMod(modifiers, ModControl) \/ HasMod(modifiers, ModMod1)
            THEN handleChord(st, method)
            ELSE IF char = 0 THEN [st |-> st, result |-> NoReply]
            ELSE processChar(st, Chr[char], cfg, method)
    IN  IF ~isEnabled THEN [st |-> st, result |-> NoReply]
        ELSE Dispatched(handleSpecialKey(st, keysym, cfg, method))

(* The session as a state machine *)

Buffer == [raw |-> raw, syllable |-> syllable, lastTransform |-> lastTransform]

\* the key reaches processChar: it is appended to the composition
IsTyped(keysym, modifiers) ==
    /\ enabled
    /\ keysym \notin {KeyBackspace, KeySpace, KeyReturn, KeyEscape, KeyTab, KeyDelete}
    /\ ~(HasMod(modifiers, ModControl) \/ HasMod(modifiers, ModMod1))
    /\ KeysymToRune(keysym) # 0

\* ValidateVietnamese has not been called
NoVerdict ==
    [onset |-> <<>>, nucleus |-> <<>>, coda |-> <<>>, called |-> FALSE,
     Valid |-> FALSE, Reason |-> ""]

\* a second engine made by NewCompositionEngine(), with the keys it was given
\* since its buffer was last emptied
NewPeer ==
    [enabled |-> TRUE, inputMethod |-> "Telex", config |-> DefaultConfig,
     raw |-> <<>>, syllable |-> EmptySyllable, lastTransform |-> NoTransform,
     result |-> NoReply, typed |-> <<>>]

\* NewCompositionEngine(), the history of the session empty
NewEngine ==
    /\ enabled = TRUE
    /\ inputMethod = "Telex"
    /\ raw = <<>>
    /\ syllable = EmptySyllable
    /\ lastTransform = NoTransform
    /\ result = NoReply
    /\ op = [kind |-> "New", keysym |-> 0, modifiers |-> 0]
    /\ typed = <<>>
    /\ erased = 0
    /\ phase = "typing"
    /\ peer = NewPeer
    /\ verdict = NoVerdict

\* NewCompositionEngine(): the default configuration
Init ==
    /\ NewEngine
    /\ config = DefaultConfig

\* an engine whose configuration switches have been set, as the tests do
InitConfigured ==
    /\ NewEngine
    /\ config \in Configs

\* the engine and the history of the session after a key event that ended
\* with the buffer and the reply of r
Told(r, keysym, modifiers) ==
    /\ raw' = r.st.raw
    /\ syllable' = r.st.syllable
    /\ lastTransform' = r.st.lastTransform
    /\ result' = r.result
    /\ op' = [kind |-> "ProcessKey", keysym |-> keysym, modifiers |-> modifiers]
    /\ IF IsTyped(keysym, modifiers) THEN
           IF phase = "typing"
           THEN /\ typed' = Append(typed, Chr[KeysymToRune(keysym)])
                /\ UNCHANGED <<erased, phase>>
           ELSE /\ typed' = <<>>
                /\ erased' = 0
                /\ phase' = "mixed"
       ELSE IF enabled /\ keysym = KeyBackspace /\ r.result.Handled THEN
           IF phase = "mixed"
           THEN UNCHANGED <<typed, erased, phase>>
           ELSE /\ erased' = erased + 1
                /\ phase' = "erasing"
                /\ UNCHANGED typed
       ELSE IF r.st = Buffer /\ r.result.CommitText = <<>>
       THEN UNCHANGED <<typed, erased, phase>>
       ELSE /\ typed' = <<>>
            /\ erased' = 0
            /\ phase' = "typing"
    /\ UNCHANGED <<enabled, inputMethod, config, peer, verdict>>

\* ProcessKey(event) and the history of the session
Press(keysym, modifiers) ==
    \E r \in {ProcessKeyResult(Buffer, enabled, config, inputMethod, keysym,
                                modifiers)} :
        Told(r, keysym, modifiers)

\* a key event, a typed key only while the composition is short
ProcessKey(keysym, modifiers) ==
    /\ IsTyped(keysym, modifiers) => Len(raw) < MaxRaw
    /\ Press(keysym, modifiers)

\* a Reset that forgets the buffer but not the last transformation
ResetKeepingTransform ==
    /\ raw' = <<>>
    /\ syllable' = EmptySyllable
    /\ op' = [kind |-> "Reset", keysym |-> 0, modifiers |-> 0]
    /\ typed' = <<>>
    /\ erased' = 0
    /\ phase' = "typing"
    /\ UNCHANGED <<enabled, inputMethod, config, result, lastTransform, peer, verdict>>

\* CompositionEngine.Reset
Reset ==
    /\ raw' = <<>>
    /\ syllable' = EmptySyllable
    /\ lastTransform' = NoTransform
    /\ op' = [kind |-> "Reset", keysym |-> 0, modifiers |-> 0]
    /\ typed' = <<>>
    /\ erased' = 0
    /\ phase' = "typing"
    /\ UNCHANGED <<enabled, inputMethod, config, result, peer, verdict>>

\* a SetEnabled that keeps the composition when disabling
SetEnabledKeeping(b) ==
    /\ enabled' = b
    /\ op' = [kind |-> "SetEnabled", keysym |-> 0, modifiers |-> 0]
    /\ UNCHANGED <<inputMethod, config, result, raw, syllable, lastTransform,
                   typed, erased, phase, peer, verdict>>

\* CompositionEngine.SetEnabled
SetEnabled(b) ==
    /\ enabled' = b
    /\ IF ~b
       THEN /\ raw' = <<>>
            /\ syllable' = EmptySyllable
            /\ lastTransform' = NoTransform
            /\ typed' = <<>>
            /\ erased' = 0
            /\ phase' = "typing"
       ELSE UNCHANGED <<raw, syllable, lastTransform, typed, erased, phase>>
    /\ op' = [kind |-> "SetEnabled", keysym |-> 0, modifiers |-> 0]
    /\ UNCHANGED <<inputMethod, config, result, peer, verdict>>

\* the composition in progress is kept and read by the new method from now on
SetInputMethod(method) ==
    /\ inputMethod' = method
    /\ IF method # inputMethod /\ raw # <<>>
       THEN /\ typed' = <<>>
            /\ erased' = 0
            /\ phase' = "mixed"
       ELSE UNCHANGED <<typed, erased, phase>>
    /\ op' = [kind |-> "SetInputMethod", keysym |-> 0, modifiers |-> 0]
    /\ UNCHANGED <<enabled, config, raw, syllable, lastTransform, result, peer, verdict>>

Methods == {"Telex", "VNI"}

Next ==
    \/ \E keysym \in KeySyms, modifiers \in Modifiers : ProcessKey(keysym, modifiers)
    \/ Reset
    \/ \E b \in BOOLEAN : SetEnabled(b)
    \/ \E method \in Methods : SetInputMethod(method)

Spec == Init /\ [][Next]_vars

\* a composition typed over the larger alphabet and then walked back with
\* Backspace, under every configuration
TypeOrErase(keysym) ==
    /\ keysym # KeyBackspace => phase = "typing"
    /\ ProcessKey(keysym, 0)

\* the input method is set between compositions
ChooseMethod(method) ==
    /\ raw = <<>>
    /\ SetInputMethod(method)

NextTyping ==
    \/ \E keysym \in TypingKeySyms : TypeOrErase(keysym)
    \/ Reset
    \/ \E method \in Methods : ChooseMethod(method)

SpecTyping == InitConfigured /\ [][NextTyping]_vars

\* the printable keys of the words typed from an empty buffer, none erased
WordLetters == {"a", "e", "o", "d", "k", "s", "f", "6"}

WordKeySyms == {Ord(r) : r \in WordLetters}

\* one more key of a word typed since the buffer was last empty
TypeWord(keysym) ==
    /\ phase = "typing"
    /\ ProcessKey(keysym, 0)

NextWords ==
    \/ \E keysym \in WordKeySyms : TypeWord(keysym)
    \/ Reset
    \/ \E method \in Methods : ChooseMethod(method)

\* an engine whose validation and revert switches have been set
InitWords ==
    /\ NewEngine
    /\ config \in {cfg \in Configs : cfg.EnableWAsVowel}

SpecWords == InitWords /\ [][NextWords]_vars

\* a word as the sequence of its keys, one rune each
W(a, b, c, d, e, f, g) == SelectSeq(<<a, b, c, d, e, f, g>>, LAMBDA r : r # "")

\* the words of the tests of tone placement, tone removal and compound marks
Lexicon ==
    {W("n","g","u","o","w","i","f"), W("d","d","u","o","w","c","j"),
     W("m","u","o","w","n","s",""), W("a","a","s","","","",""),
     W("c","h","a","o","f","",""), W("x","o","a","s","","",""),
     W("h","o","e","f","","",""), W("t","h","u","y","r","",""),
     W("m","u","a","f","","",""), W("n","g","h","i","a","x",""),
     W("s","a","u","s","","",""), W("t","a","i","s","","",""),
     W("k","e","o","s","","",""), W("o","a","i","s","","",""),
     W("i","a","u","s","","",""), W("t","o","a","n","f","",""),
     W("u","y","e","n","s","",""), W("b","a","n","s","z","",""),
     W("b","a","s","z","","",""), W("z","a","","","","",""),
     W("b","z","","","","",""),
     W("d","u","o","c","7","5",""), W("d","u","o","7","c","5",""),
     W("k","d","w","","","",""), W("t","w","w","a","","",""),
     W("a","s","s","s","k","","")}

LexiconKeys == UNION {{w[i] : i \in 1..Len(w)} : w \in Lexicon}

\* the next key of a word of the lexicon typed from an empty buffer, or
\* Backspace after a whole word of the lexicon
TypeLexicon(keysym) ==
    /\ phase = "typing"
    /\ IF keysym = KeyBackspace
       THEN typed \in Lexicon
       ELSE \E w \in Lexicon :
                /\ Len(w) > Len(typed)
                /\ SubSeq(w, 1, Len(typed) + 1) = Append(typed, Chr[KeysymToRune(keysym)])
    /\ Press(keysym, 0)

NextLexicon ==
    \/ \E keysym \in {Ord(k) : k \in LexiconKeys} \cup {KeyBackspace} :
           TypeLexicon(keysym)
    \/ Reset
    \/ \E method \in Methods : ChooseMethod(method)

\* an engine whose switches and tone rule have been set
InitLexicon ==
    /\ NewEngine
    /\ config \in {[cfg EXCEPT !.ToneRule = rule] :
                      cfg \in {c \in Configs : c.EnableWAsVowel},
                      rule \in ToneRules}

SpecLexicon == InitLexicon /\ [][NextLexicon]_vars

\* key events that carry Shift, Caps Lock and Super, alone and with
\* Control or Alt
ShiftModifiers ==
    {0, ModShift, ModLock, ModMod4, ModShift + ModControl, ModLock + ModMod1,
     ModMod4 + ModControl, ModShift + ModLock + ModMod4}

ShiftKeySyms == {Ord("a"), Ord("s"), KeyBackspace, KeySpace, KeyLeft}

NextModifiers ==
    \/ \E keysym \in ShiftKeySyms, modifiers \in ShiftModifiers :
           ProcessKey(keysym, modifiers)
    \/ Reset
    \/ \E b \in BOOLEAN : SetEnabled(b)

SpecModifiers == Init /\ [][NextModifiers]_vars

\* the fields of the first engine and its history
session ==
    <<enabled, inputMethod, config, raw, syllable, lastTransform, result, op,
      typed, erased, phase>>

PeerBuffer ==
    [raw |-> peer.raw, syllable |-> peer.syllable,
     lastTransform |-> peer.lastTransform]

\* ProcessKey(event) on the first engine or on the second, for a printable key
EngineProcessKey(first, keysym) ==
    /\ IF first
       THEN IsTyped(keysym, 0) => Len(raw) < MaxRaw
       ELSE peer.enabled => Len(peer.raw) < MaxRaw
    /\ \E st \in {IF first THEN Buffer ELSE PeerBuffer},
          on \in {IF first THEN enabled ELSE peer.enabled},
          cfg \in {IF first THEN config ELSE peer.config},
          method \in {IF first THEN inputMethod ELSE peer.inputMethod} :
           \E r \in {ProcessKeyResult(st, on, cfg, method, keysym, 0)} :
               IF first
               THEN Told(r, keysym, 0)
               ELSE /\ peer' = [peer EXCEPT
                                   !.raw = r.st.raw,
                                   !.syllable = r.st.syllable,
                                   !.lastTransform = r.st.lastTransform,
                                   !.result = r.result,
                                   !.typed = IF peer.enabled
                                             THEN Append(@, Chr[KeysymToRune(keysym)])
                                             ELSE @]
                    /\ UNCHANGED <<session, verdict>>

\* a Reset that empties a buffer which all engines of the process share
PeerResetShared ==
    /\ peer' = [peer EXCEPT !.raw = <<>>, !.syllable = EmptySyllable,
                            !.lastTransform = NoTransform, !.typed = <<>>]
    /\ raw' = <<>>
    /\ syllable' = EmptySyllable
    /\ lastTransform' = NoTransform
    /\ UNCHANGED <<enabled, inputMethod, config, result, op, typed, erased, phase,
                   verdict>>

\* Reset() on the second engine
PeerReset ==
    /\ peer' = [peer EXCEPT !.raw = <<>>, !.syllable = EmptySyllable,
                            !.lastTransform = NoTransform, !.typed = <<>>]
    /\ UNCHANGED <<session, verdict>>

\* SetEnabled(b) on the second engine
PeerSetEnabled(b) ==
    /\ peer' = IF b THEN [peer EXCEPT !.enabled = TRUE]
               ELSE [peer EXCEPT !.enabled = FALSE, !.raw = <<>>,
                                 !.syllable = EmptySyllable,
                                 !.lastTransform = NoTransform, !.typed = <<>>]
    /\ UNCHANGED <<session, verdict>>

SessionKeySyms == {Ord("a"), Ord("s")}

\* calls on two engines of one process, interleaved in any order
NextSessions ==
    \/ \E first \in BOOLEAN, keysym \in SessionKeySyms :
           EngineProcessKey(first, keysym)
    \/ Reset
    \/ \E b \in BOOLEAN : SetEnabled(b)
    \/ PeerReset
    \/ \E b \in BOOLEAN : PeerSetEnabled(b)

SpecSessions == Init /\ [][NextSessions]_vars

\* arguments of ValidateVietnamese: initials in both cases, clusters that are
\* no initial, nuclei that start with each vowel, finals and other codas
SomeOnsets ==
    {<<>>} \cup validInitials \cup
    {<<"N","g">>, <<"T","H">>, <<"D-">>, <<"K">>, <<"G","h">>,
     <<"c","l">>, <<"d","k">>, <<"d-","h">>, <<"n","g","h","k">>, <<"k","k">>,
     <<"f">>, <<"z">>, <<"w">>, <<"j">>}

SomeNuclei ==
    {<<>>, <<"a">>, <<"e">>, <<"i">>, <<"y">>, <<"o">>, <<"u">>, <<"e^">>,
     <<"A">>, <<"E">>, <<"I">>, <<"i","e">>, <<"u","o">>, <<"u+","o+">>}

SomeCodas ==
    {<<>>} \cup validFinals \cup
    {<<"C">>, <<"N","G">>, <<"I">>, <<"k">>, <<"g">>, <<"n","g","h">>,
     <<"a">>, <<"c","k">>}

\* a call of ValidateVietnamese(onset, nucleus, coda)
Validate(onset, nucleus, coda) ==
    /\ \E r \in {ValidateVietnamese(onset, nucleus, coda)} :
           verdict' = [onset |-> onset, nucleus |-> nucleus, coda |-> coda,
                       called |-> TRUE, Valid |-> r.Valid, Reason |-> r.Reason]
    /\ UNCHANGED <<session, peer>>

\* calls on the arguments of the latest call with one of them replaced
NextValidate ==
    \/ \E onset \in SomeOnsets : Validate(onset, verdict.nucleus, verdict.coda)
    \/ \E nucleus \in SomeNuclei : Validate(verdict.onset, nucleus, verdict.coda)
    \/ \E coda \in SomeCodas : Validate(verdict.onset, verdict.nucleus, coda)

SpecValidate == Init /\ [][NextValidate]_vars

\* the keys of the nuclei i e and u o, a coda, and the key of a circumflex
VowelLetters == {"i", "e", "E", "u", "o", "n", "6"}

VowelKeySyms == {Ord(r) : r \in VowelLetters}

NextVowels ==
    \/ \E keysym \in VowelKeySyms : TypeWord(keysym)
    \/ Reset
    \/ \E method \in Methods : ChooseMethod(method)

SpecVowels == InitWords /\ [][NextVowels]_vars

(* Properties of the key-event contract *)

\* GetPreedit() of the session
Preedit == GetPreedit(raw, syllable, inputMethod)

\* the buffer a session holds after processKeyInternal on each of the runes
TypedState(runes) == Replay(EmptyBuffer, runes, config, inputMethod)

\* the step is a ProcessKey call with this keysym
Pressed(keysym) == op'.kind = "ProcessKey" /\ op'.keysym = keysym

\* the event of the latest ProcessKey call carries Control or Alt
Chord(modifiers) == HasMod(modifiers, ModControl) \/ HasMod(modifiers, ModMod1)

SpecialKeys == {KeyBackspace, KeySpace, KeyReturn, KeyEscape, KeyTab, KeyDelete}

\* the letter a composed rune is built on: the row of the tone table and the
\* entry of the mark table it comes from
BaseLetter(r) ==
    LET Unmarked(v) ==
            CASE v \in {"a(", "a^"} -> "a"
              [] v \in {"A(", "A^"} -> "A"
              [] v = "e^" -> "e"
              [] v = "E^" -> "E"
              [] v \in {"o^", "o+"} -> "o"
              [] v \in {"O^", "O+"} -> "O"
              [] v = "u+" -> "u"
              [] v = "U+" -> "U"
              [] v = "d-" -> "d"
              [] v = "D-" -> "D"
              [] OTHER -> v
        Rows == {v \in unicodeVowelTones :
                    \E t \in DOMAIN ToneSign : r = v \o ToneSign[t]}
    IN  IF Rows = {} THEN Unmarked(r) ELSE Unmarked(CHOOSE v \in Rows : TRUE)

BaseLetters(text) == [i \in 1..Len(text) |-> BaseLetter(text[i])]

\* the key of the step repeats the key recorded as the last transformation
Repeated(char) ==
    /\ Pressed(Ord(char))
    /\ op'.modifiers = 0
    /\ lastTransform.Type # "TransformNone"
    /\ ToLower(lastTransform.Key) = char

\* C1: typing s, then a non-empty t, then |t| Backspaces leaves the session
\* with the raw, onset, nucleus, coda, tone and preedit of typing s alone.
C1_BackspaceInverse ==
    LET Same(s) ==
            /\ raw = s.raw
            /\ syllable.Onset = s.syllable.Onset
            /\ syllable.Nucleus = s.syllable.Nucleus
            /\ syllable.Coda = s.syllable.Coda
            /\ syllable.ToneMark = s.syllable.ToneMark
            /\ Preedit = GetPreedit(s.raw, s.syllable, inputMethod)
    IN  (phase = "erasing" /\ erased <= Len(typed)) =>
            Same(TypedState(SubSeq(typed, 1, Len(typed) - erased)))

\* C2: the commit of a key event is empty, or the preedit held just before the
\* event, or that preedit and one space; with a non-empty commit the returned
\* preedit is empty and the buffer restarts, and what it holds afterwards is
\* made of the keys typed since then only.
C2_CommitAtomicity ==
    /\ [][op'.kind = "ProcessKey" =>
             /\ result'.CommitText \in {<<>>, Preedit, Preedit \o <<" ">>}
             /\ result'.CommitText # <<>> =>
                   /\ result'.Preedit = <<>>
                   /\ raw' = <<>>
                   /\ syllable' = EmptySyllable
                   /\ lastTransform' = NoTransform
                   /\ typed' = <<>>
         ]_vars
    /\ [](phase = "typing" =>
             \E s \in {TypedState(typed)} :
                 raw = s.raw /\ syllable = s.syllable)

\* a key event has committed a composition of two runes or more
C2_Witness ==
    /\ op.kind = "ProcessKey"
    /\ Len(result.CommitText) >= 2
    /\ result.CommitText[Len(result.CommitText)] # " "
    /\ raw = <<>>

\* C3: right after Reset(), after Escape and after a key event with a non-empty
\* commit the session is that of a new engine: raw empty, preedit empty,
\* lastTransform none, syllable empty.
C3_EmptyAfterReset ==
    (\/ op.kind = "Reset"
     \/ op.kind = "ProcessKey" /\ op.keysym = KeyEscape
     \/ op.kind = "ProcessKey" /\ result.CommitText # <<>>) =>
        /\ raw = <<>>
        /\ Preedit = <<>>
        /\ lastTransform.Type = "TransformNone"
        /\ lastTransform = NoTransform
        /\ syllable = EmptySyllable

\* Tab has committed a composition and the session is empty
C3_Witness ==
    /\ op.kind = "ProcessKey"
    /\ op.keysym = KeyTab
    /\ result.CommitText # <<>>
    /\ raw = <<>>
    /\ lastTransform = NoTransform

\* C4: Space on an enabled engine is handled, commits the preedit followed by
\* one space (a single space when the buffer is empty), returns an empty
\* preedit and resets the buffer.
C4_Space ==
    [][(Pressed(KeySpace) /\ enabled) =>
          /\ result'.Handled
          /\ result'.CommitText = Preedit \o <<" ">>
          /\ raw = <<>> => result'.CommitText = <<" ">>
          /\ result'.Preedit = <<>>
          /\ raw' = <<>>
          /\ syllable' = EmptySyllable
          /\ lastTransform' = NoTransform
      ]_vars

\* Space has committed a composition and its space
C4_Witness ==
    /\ op.kind = "ProcessKey"
    /\ op.keysym = KeySpace
    /\ result.Handled
    /\ Len(result.CommitText) >= 2
    /\ result.CommitText[Len(result.CommitText)] = " "
    /\ raw = <<>>

\* C5: Enter on a non-empty buffer is handled, commits the preedit as it is
\* and resets the buffer; Enter on an empty buffer is not handled, commits
\* nothing and changes nothing.
C5_Enter ==
    [][(Pressed(KeyReturn) /\ enabled) =>
          IF raw # <<>>
          THEN /\ result'.Handled
               /\ result'.CommitText = Preedit
               /\ result'.Preedit = <<>>
               /\ raw' = <<>>
               /\ syllable' = EmptySyllable
               /\ lastTransform' = NoTransform
          ELSE /\ ~result'.Handled
               /\ result'.CommitText = <<>>
               /\ UNCHANGED <<raw, syllable, lastTransform>>
      ]_vars

\* C6: Backspace on an empty buffer is not handled and changes nothing;
\* Backspace on a non-empty buffer is handled, commits nothing and returns the
\* recomputed preedit; so each of n Backspaces after n typed keys is handled
\* and the preedit is empty after the last one.
C6_Backspace ==
    [][(Pressed(KeyBackspace) /\ enabled) =>
          /\ IF raw = <<>>
             THEN /\ ~result'.Handled
                  /\ UNCHANGED <<raw, syllable, lastTransform>>
             ELSE /\ result'.Handled
                  /\ result'.CommitText = <<>>
                  /\ result'.Preedit = GetPreedit(raw', syllable', inputMethod')
          /\ (phase \in {"typing", "erasing"} /\ erased < Len(typed)) =>
                /\ result'.Handled
                /\ erased' = Len(typed') => result'.Preedit = <<>>
      ]_vars

\* C7: Delete on a non-empty buffer commits the preedit, returns an empty
\* preedit, is not handled and resets the buffer; Delete on an empty buffer is
\* not handled, commits nothing and changes nothing.
C7_Delete ==
    [][(Pressed(KeyDelete) /\ enabled) =>
          /\ ~result'.Handled
          /\ result'.Preedit = <<>>
          /\ IF raw # <<>>
             THEN /\ result'.CommitText = Preedit
                  /\ raw' = <<>>
                  /\ syllable' = EmptySyllable
                  /\ lastTransform' = NoTransform
             ELSE /\ result'.CommitText = <<>>
                  /\ UNCHANGED <<raw, syllable, lastTransform>>
      ]_vars

\* Delete has committed a composition and was left to the application
C7_Witness ==
    /\ op.kind = "ProcessKey"
    /\ op.keysym = KeyDelete
    /\ ~result.Handled
    /\ result.CommitText # <<>>
    /\ raw = <<>>

\* C8: a key that is not a special key, pressed with Control or Alt, is not
\* handled; on a non-empty buffer it commits the preedit, returns an empty
\* preedit and resets the buffer; on an empty buffer it commits nothing and
\* changes nothing; the key is never added to the buffer.
C8_Chord ==
    [][(/\ op'.kind = "ProcessKey"
        /\ enabled
        /\ op'.keysym \notin SpecialKeys
        /\ Chord(op'.modifiers)) =>
          /\ ~result'.Handled
          /\ result'.Preedit = <<>>
          /\ IF raw # <<>>
             THEN /\ result'.CommitText = Preedit
                  /\ raw' = <<>>
                  /\ syllable' = EmptySyllable
                  /\ lastTransform' = NoTransform
             ELSE /\ result'.CommitText = <<>>
                  /\ UNCHANGED <<raw, syllable, lastTransform>>
      ]_vars

\* a letter pressed with Control has committed the composition
C8_Witness ==
    /\ op.kind = "ProcessKey"
    /\ op.keysym = Ord("a")
    /\ op.modifiers = ModControl
    /\ ~result.Handled
    /\ result.CommitText # <<>>
    /\ raw = <<>>

\* C9 as stated: on an enabled engine every key event with Control or Alt is
\* not handled, whatever the keysym and the buffer, and leaves the buffer empty.
C9_ChordPassedThrough ==
    [][(op'.kind = "ProcessKey" /\ enabled /\ Chord(op'.modifiers)) =>
          /\ ~result'.Handled
          /\ raw' = <<>>
      ]_vars

\* C9: the special keys are dispatched before the modifiers are looked at.
\* With Control or Alt on an enabled engine, Space and Escape are handled,
\* Backspace and Tab are handled exactly when the buffer is non-empty, Enter
\* exactly when the preedit is non-empty, every other key is not handled; and
\* the buffer is empty after every such event but a Backspace.
C9_ChordUnlessSpecial ==
    [][(op'.kind = "ProcessKey" /\ enabled /\ Chord(op'.modifiers)) =>
          /\ result'.Handled <=>
                \/ op'.keysym \in {KeySpace, KeyEscape}
                \/ op'.keysym \in {KeyBackspace, KeyTab} /\ raw # <<>>
                \/ op'.keysym = KeyReturn /\ Preedit # <<>>
          /\ op'.keysym # KeyBackspace =>
                /\ raw' = <<>>
                /\ syllable' = EmptySyllable
                /\ lastTransform' = NoTransform
      ]_vars

\* Control+Space has been handled as a Space, committing the composition
C9_Witness ==
    /\ op.kind = "ProcessKey"
    /\ op.keysym = KeySpace
    /\ op.modifiers = ModControl
    /\ result.Handled
    /\ Len(result.CommitText) >= 2

\* C10: on a disabled engine every ProcessKey call returns handled=false, an
\* empty commit and an empty preedit and changes nothing; SetEnabled(false)
\* discards the composition, so a disabled engine, and the engine enabled
\* again, hold the empty buffer.
C10_Disabled ==
    [][/\ (op'.kind = "ProcessKey" /\ ~enabled) =>
              /\ result' = NoReply
              /\ UNCHANGED <<enabled, raw, syllable, lastTransform>>
       /\ (op'.kind = "SetEnabled" /\ (~enabled \/ ~enabled')) =>
              /\ raw' = <<>>
              /\ syllable' = EmptySyllable
              /\ lastTransform' = NoTransform
      ]_vars

\* a special key has been pressed on a disabled engine
C10_Witness ==
    /\ ~enabled
    /\ op.kind = "ProcessKey"
    /\ op.keysym = KeySpace
    /\ result = NoReply


\* C11: when a key recorded as the last transformation is pressed again at
\* once, the base letters of the preedit are the keys typed, the repeated key
\* twice at the end, and no earlier letter is lost.
C11_RevertSymmetry ==
    [][\A char \in WordLetters :
          (Repeated(char) /\ config.EnableDoubleKeyRevert /\ phase = "typing")
              => BaseLetters(result'.Preedit) = typed']_vars


\* the doubled letters of Telex
Doubled == {"a", "e", "o", "d"}

\* the session is a Telex one with the revert on and these keys typed
TelexTyped(keys) ==
    /\ inputMethod = "Telex"
    /\ config.EnableDoubleKeyRevert
    /\ phase = "typing"
    /\ typed = keys

ToneLetters == {k \in WordLetters : TelexIsToneKey(k)}

\* C13: under Telex with the default configuration, a vowel and then the same
\* tone key twice from reset shows the bare vowel: the second press takes the
\* tone off, neither press is displayed, and raw holds all three keys.
C13_ToneToggle ==
    \A k \in ToneLetters :
        (TelexTyped(<<"a", k, k>>) /\ config = DefaultConfig) =>
            /\ Preedit = <<"a">>
            /\ raw = <<"a", k, k>>

Refused(char) ==
    /\ Pressed(Ord(char))
    /\ op'.modifiers = 0
    /\ phase = "typing"
    /\ config.EnableValidation
    /\ ~(config.EnableDoubleKeyRevert
         /\ checkDoubleKeyRevert(Buffer, char, config, inputMethod).done)
    /\ ProcessChar(inputMethod, char, syllable).consumed
    /\ ~shouldTransform(syllable)

\* C15: with validation on, a modifier key that arrives while the parsed
\* syllable is not valid Vietnamese transforms nothing: it is appended to raw,
\* the last transformation is cleared, and the preedit is the previous preedit
\* followed by the key.
C15_RefusedIsLiteral ==
    [][\A char \in WordLetters :
          Refused(char) =>
              /\ raw' = Append(raw, char)
              /\ lastTransform' = NoTransform
              /\ result'.Preedit = Append(Preedit, char)]_vars


\* C16: under Telex a tone key pressed while the nucleus is empty, as the
\* first key of a word is, is passed through as a literal: it is shown in the
\* preedit at that point and it stays there when further keys are typed.
C16_ToneKeyLiteral ==
    (/\ inputMethod = "Telex"
     /\ phase = "typing"
     /\ typed # <<>>
     /\ typed[1] \in ToneLetters) =>
        /\ Preedit # <<>>
        /\ Preedit[1] = typed[1]
        /\ Len(typed) = 1 => result.Preedit = <<typed[1]>>


\* keys of which Telex takes none as a modifier: no tone key, no w, and no
\* letter typed twice in a row
PlainKeys(keys) ==
    \A i \in 1..Len(keys) :
        /\ ~isTelexModifier(keys[i])
        /\ i > 1 => keys[i] # keys[i - 1]

\* C17: keys typed from reset of which none is consumed as a modifier and none
\* completes a doubled letter, such as letters followed by digits under Telex,
\* are shown verbatim: the preedit after each key is the keys typed so far.
C17_LiteralVerbatim ==
    (/\ inputMethod = "Telex"
     /\ phase = "typing"
     /\ typed # <<>>
     /\ PlainKeys(typed)) =>
        /\ Preedit = typed
        /\ result.Preedit = typed


\* the keysym is outside 0x20-0x7E and 0xA0-0xFF and below 0x01000000, or it
\* is 0x01000000 itself, whose code point is 0
NoCodePoint(keysym) ==
    \/ keysym < 32
    \/ keysym > 126 /\ keysym < 160
    \/ keysym > 255 /\ keysym < UnicodeKeysymBase
    \/ keysym = UnicodeKeysymBase

\* the step is a key event passed on with nothing committed and nothing changed
Dropped ==
    /\ ~result'.Handled
    /\ result'.CommitText = <<>>
    /\ UNCHANGED <<raw, syllable, lastTransform>>

\* the step is a key event answered as the event of this keysym would be
TreatedAs(keysym) ==
    \E r \in {ProcessKeyResult(Buffer, enabled, config, inputMethod, keysym,
                                op'.modifiers)} :
        /\ result' = r.result
        /\ raw' = r.st.raw
        /\ syllable' = r.st.syllable
        /\ lastTransform' = r.st.lastTransform

\* C18: a key event whose keysym is no special key and has no code point is
\* dropped: not handled, nothing committed, raw, syllable and last
\* transformation unchanged; a keysym from 0x01000000 up is treated as the
\* code point keysym - 0x01000000.
C18_UnknownDropped ==
    [][op'.kind = "ProcessKey" =>
          /\ (op'.keysym \notin SpecialKeys /\ NoCodePoint(op'.keysym))
                 => Dropped
          /\ op'.keysym > UnicodeKeysymBase
                 => TreatedAs(op'.keysym - UnicodeKeysymBase)]_vars

\* C18 amended: the special keys and then Control and Alt are examined before
\* the keysym is converted, so the event is dropped when the engine is
\* disabled or neither Control nor Alt is held; with one of them held the
\* event is not handled either, but the composition is committed and reset.
C18_UnknownDroppedUnlessChord ==
    [][op'.kind = "ProcessKey" =>
          /\ (/\ op'.keysym \notin SpecialKeys
              /\ NoCodePoint(op'.keysym)
              /\ (~enabled \/ ~Chord(op'.modifiers)))
                 => Dropped
          /\ (/\ op'.keysym \notin SpecialKeys
              /\ NoCodePoint(op'.keysym)
              /\ enabled /\ Chord(op'.modifiers))
                 => /\ ~result'.Handled
                    /\ result'.CommitText = Preedit
                    /\ raw' = <<>>
          /\ op'.keysym > UnicodeKeysymBase
                 => TreatedAs(op'.keysym - UnicodeKeysymBase)]_vars

C18_Witness ==
    /\ op.kind = "ProcessKey"
    /\ op.keysym = KeyLeft
    /\ op.modifiers = 0
    /\ enabled
    /\ raw # <<>>
    /\ ~result.Handled
    /\ result.CommitText = <<>>


\* the runes of a text
Runes(text) == {text[i] : i \in 1..Len(text)}

\* C19: the break marker never reaches the output: it is in no preedit and no
\* commit returned by a key event and not in the text GetPreedit returns,
\* whatever was reverted or erased before.
C19_MarkerFiltered ==
    /\ breakMarker \notin Runes(result.Preedit)
    /\ breakMarker \notin Runes(result.CommitText)
    /\ breakMarker \notin Runes(Preedit)

C19_Witness ==
    /\ breakMarker \in Runes(raw)
    /\ breakMarker \in Runes(syllable.Raw)
    /\ syllable.Nucleus = <<>>
    /\ op.kind = "ProcessKey"
    /\ result.Preedit # <<>>
    /\ result.Preedit = Preedit


\* C20: raw is a lossless record of the input: after printable keys typed from
\* an empty buffer with no Backspace, commit or reset, raw without its break
\* markers is the keys typed, under Telex and under VNI.
C20_RawLossless ==
    phase = "typing" => StripMarker(raw) = typed


\* the words of at most n keys made of the given keys
Words(keys, n) == UNION {[1..m -> keys] : m \in 0..n}

\* C21: the preedit depends on raw, break markers included, and on the
\* configuration only: a word of the same keys typed from reset that leaves
\* the same raw shows the same preedit.
C21_PreeditOfRaw ==
    LET Same(other) ==
            other.raw = raw =>
                GetPreedit(other.raw, other.syllable, inputMethod) = Preedit
    IN  phase = "typing" =>
            \A w \in Words(Runes(typed), Len(typed)) : Same(TypedState(w))


\* the rune carries a tone sign
HasTone(r) ==
    \E v \in unicodeVowelTones, t \in DOMAIN ToneSign : r = v \o ToneSign[t]

\* the places of the preedit that carry a tone sign
Toned(text) == {i \in 1..Len(text) : HasTone(text[i])}

\* the place of the preedit where the letter of the nucleus at index i is drawn
NucleusPlace(i) == Len(syllable.Onset) + i + 1

\* C22: when the nucleus holds marked letters the tone is drawn on a marked
\* letter, the later one when there are several: under Telex n g u o w i f
\* shows the grave on o+ and d d u o w c j the dot on o+.
C22_ToneOnLaterMarked ==
    /\ (syllable.ToneMark # "ToneNone" /\ Marked(syllable.Nucleus) # {}) =>
           Toned(Preedit) = {NucleusPlace(Max(Marked(syllable.Nucleus)))}
    /\ TelexTyped(W("n","g","u","o","w","i","f")) =>
           Preedit = <<"n", "g", "u+", "o+:f", "i">>
    /\ TelexTyped(W("d","d","u","o","w","c","j")) =>
           Preedit = <<"d-", "u+", "o+:j", "c">>


\* the index the old rule gives in a nucleus of one to three unmarked vowels
OldRulePlace(nucleus, coda) ==
    IF Len(nucleus) = 1 THEN 0
    ELSE IF Len(nucleus) = 3 THEN 1
    ELSE IF coda # <<>> THEN 0
    ELSE IF LowerStr(nucleus) \in {<<"o","a">>, <<"o","e">>, <<"u","y">>,
                                   <<"u","a">>}
    THEN 1
    ELSE 0

\* C23: old-rule placement in a nucleus without marked letters: the single
\* vowel; without coda the second vowel of oa, oe, uy, ua, the first vowel of
\* ia and of any other pair, the middle one of three; with a coda the first of
\* two and the middle one of three.
C23_OldRule ==
    (/\ syllable.ToneMark # "ToneNone"
     /\ Len(syllable.Nucleus) \in 1..3
     /\ Marked(syllable.Nucleus) = {}) =>
        Toned(Preedit) =
            {NucleusPlace(OldRulePlace(syllable.Nucleus, syllable.Coda))}


\* the nucleus is a coda-less ia or ua and the syllable has a tone
ToneOnIaUa ==
    /\ syllable.ToneMark # "ToneNone"
    /\ syllable.Coda = <<>>
    /\ LowerStr(syllable.Nucleus) \in {<<"i","a">>, <<"u","a">>}

\* C24: the tone rule is a setting of the session: with the new rule the tone
\* of a coda-less ia or ua is drawn on the final vowel (n g h i a x shows it on
\* a), with the old rule on the first vowel of ia and the second of ua.
C24_ToneRuleOfSession ==
    /\ (ToneOnIaUa /\ config.ToneRule = "ToneRuleNew") =>
           Toned(Preedit) = {NucleusPlace(1)}
    /\ (ToneOnIaUa /\ config.ToneRule = "ToneRuleOld") =>
           Toned(Preedit) =
               {NucleusPlace(OldRulePlace(syllable.Nucleus, syllable.Coda))}


\* the rune without its tone sign
Untone(r) ==
    LET Rows == {v \in unicodeVowelTones :
                    \E t \in DOMAIN ToneSign : r = v \o ToneSign[t]}
    IN  IF Rows = {} THEN r ELSE CHOOSE v \in Rows : TRUE

Untoned(text) == [i \in 1..Len(text) |-> Untone(text[i])]

\* the step is the key z typed under Telex
PressedZ ==
    /\ Pressed(Ord("z"))
    /\ op'.modifiers = 0
    /\ phase = "typing"
    /\ inputMethod = "Telex"

\* C25: under Telex z pressed on a syllable that has a nucleus is consumed:
\* the tone becomes none and the preedit is the syllable without its tone,
\* with no z and no earlier tone key shown; z pressed with an empty nucleus is
\* not consumed.
C25_ToneRemoval ==
    [][/\ (PressedZ /\ syllable.Nucleus # <<>>) =>
              /\ syllable'.ToneMark = "ToneNone"
              /\ result'.Preedit = Untoned(Preedit)
       /\ (PressedZ /\ syllable.Nucleus = <<>>) =>
              /\ raw' = Append(raw, "z")
              /\ lastTransform' = NoTransform]_vars


\* the session is a VNI one with these keys typed
VNITyped(keys) ==
    /\ inputMethod = "VNI"
    /\ phase = "typing"
    /\ typed = keys

\* C26: under VNI the key 7 on a syllable whose nucleus is u o promotes both
\* letters, with the coda typed before or after it, and a tone digit that
\* follows draws the tone on o+: d u o c 7 shows d u+ o+ c, and d u o c 7 5
\* and d u o 7 c 5 show the dot under o+.
C26_VNICompound ==
    /\ VNITyped(W("d","u","o","c","7","","")) =>
           Preedit = <<"d", "u+", "o+", "c">>
    /\ VNITyped(W("d","u","o","c","7","5","")) =>
           Preedit = <<"d", "u+", "o+:j", "c">>
    /\ VNITyped(W("d","u","o","7","c","5","")) =>
           Preedit = <<"d", "u+", "o+:j", "c">>


\* C27: changing the input method of a session clears it: afterwards the
\* buffer and the preedit are empty and no transformation is recorded.
C27_MethodChangeClears ==
    [][(op'.kind = "SetInputMethod" /\ inputMethod' # inputMethod) =>
          /\ raw' = <<>>
          /\ syllable' = EmptySyllable
          /\ GetPreedit(raw', syllable', inputMethod') = <<>>
          /\ lastTransform'.Type = "TransformNone"]_vars


\* C28: with validation enabled the parsed syllable is well formed in every
\* state: the onset is empty or a valid initial of at most three letters, the
\* coda is empty or a valid coda, and the nucleus has at most three vowels.
C28_WellFormedSyllable ==
    config.EnableValidation =>
        /\ Len(syllable.Onset) <= 3
        /\ isValidInitial(LowerStr(syllable.Onset))
        /\ syllable.Coda = <<>> \/ isValidCoda(syllable.Coda)
        /\ Len(syllable.Nucleus) <= 3
        /\ \A i \in 1..Len(syllable.Nucleus) :
              isVietnameseVowelRune(syllable.Nucleus[i])


\* C29: no reply of ProcessKey carries both a commit and a preedit: every
\* reply that commits text returns an empty preedit.
C29_CommitOrPreedit ==
    ~(result.CommitText # <<>> /\ result.Preedit # <<>>)

\* Tab has committed a composition, and the reply shows nothing
C29_Witness ==
    /\ op.kind = "ProcessKey"
    /\ op.keysym = KeyTab
    /\ Len(result.CommitText) >= 2
    /\ result.Preedit = <<>>


\* C31: Shift, Caps Lock and Super do not influence ProcessKey: the reply and
\* the next state of a key event are those of the event with the same keysym
\* and only its Control and Alt bits.
C31_ShiftIgnored ==
    [][op'.kind = "ProcessKey" =>
          \* the Control and Alt bits of a modifier state, every other bit cleared
          LET ControlAndAlt(modifiers) == (modifiers % 16) - (modifiers % 4)
          IN  \E r \in {ProcessKeyResult(Buffer, enabled, config, inputMethod,
                                         op'.keysym, ControlAndAlt(op'.modifiers))} :
                  /\ result' = r.result
                  /\ raw' = r.st.raw
                  /\ syllable' = r.st.syllable
                  /\ lastTransform' = r.st.lastTransform]_vars

\* a letter pressed with Shift, Caps Lock and Super joined a composition
C31_Witness ==
    /\ op.kind = "ProcessKey"
    /\ op.modifiers = ModShift + ModLock + ModMod4
    /\ op.keysym = Ord("s")
    /\ result.Handled
    /\ Len(raw) >= 2


\* what an engine run alone holds and shows after the keys it was given
Alone(runes, cfg, method) ==
    LET Shown(st) == [st |-> st, preedit |-> GetPreedit(st.raw, st.syllable, method)]
    IN  Shown(Replay(EmptyBuffer, runes, cfg, method))

\* C32: engines are independent: a call on one engine leaves the other as it
\* was, and under any interleaving each engine holds the buffer and gave the
\* reply that it holds and gives when it is given its own keys alone.
C32_SessionsIndependent ==
    /\ [][/\ peer' # peer => session' = session
          /\ session' # session => peer' = peer]_vars
    /\ [](\E own \in {Alone(typed, config, inputMethod)},
             other \in {Alone(peer.typed, peer.config, peer.inputMethod)} :
             /\ Buffer = own.st
             /\ typed # <<>> => result = [Handled |-> TRUE, CommitText |-> <<>>,
                                          Preedit |-> own.preedit]
             /\ PeerBuffer = other.st
             /\ peer.typed # <<>> =>
                    peer.result = [Handled |-> TRUE, CommitText |-> <<>>,
                                   Preedit |-> other.preedit])

\* both engines hold a composition, of different keys, and the first was
\* given its last key after the second had been given keys
C32_Witness ==
    /\ Len(typed) >= 2
    /\ Len(peer.typed) >= 2
    /\ typed # peer.typed
    /\ lastTransform # peer.lastTransform
    /\ op.kind = "ProcessKey"


\* the initials
ClosedInitials ==
    {<<"b">>, <<"c">>, <<"d">>, <<"g">>, <<"h">>, <<"k">>, <<"l">>, <<"m">>,
     <<"n">>, <<"p">>, <<"q">>, <<"r">>, <<"s">>, <<"t">>, <<"v">>, <<"x">>,
     <<"c","h">>, <<"g","h">>, <<"g","i">>, <<"k","h">>, <<"n","g">>,
     <<"n","h">>, <<"p","h">>, <<"q","u">>, <<"t","h">>, <<"t","r">>,
     <<"n","g","h">>}

\* a rune in lower case, the stroked d counted as d
Folded(r) == IF ToLower(r) = "d-" THEN "d" ELSE ToLower(r)

\* C33: ValidateVietnamese(onset, nucleus, coda) is valid exactly when the
\* nucleus is not empty, the onset is empty or an initial (in any case, the
\* stroked d counted as d), the coda is empty or one of c, ch, m, n, ng, nh,
\* p, t, i, y, o, u (in any case), and the onset in lower case followed by the
\* first nucleus letter in lower case is no forbidden spelling; when it is
\* invalid the reason is the first check that fails, in the order no_vowel,
\* invalid_initial, invalid_final, spelling_rule_violation.
C33_ValidateVietnamese ==
    verdict.called =>
        LET noVowel == verdict.nucleus = <<>>
            badInitial ==
                /\ verdict.onset # <<>>
                /\ [i \in 1..Len(verdict.onset) |-> Folded(verdict.onset[i])]
                       \notin ClosedInitials
            badFinal ==
                /\ verdict.coda # <<>>
                /\ LowerStr(verdict.coda) \notin
                       {<<"c">>, <<"c","h">>, <<"m">>, <<"n">>, <<"n","g">>,
                        <<"n","h">>, <<"p">>, <<"t">>, <<"i">>, <<"y">>,
                        <<"o">>, <<"u">>}
            badSpelling ==
                /\ verdict.onset # <<>>
                /\ verdict.nucleus # <<>>
                /\ LowerStr(verdict.onset) \o <<ToLower(verdict.nucleus[1])>>
                       \in spellingRules
        IN  /\ verdict.Valid <=> ~(noVowel \/ badInitial \/ badFinal \/ badSpelling)
            /\ verdict.Reason =
                   IF noVowel THEN "no_vowel"
                   ELSE IF badInitial THEN "invalid_initial"
                   ELSE IF badFinal THEN "invalid_final"
                   ELSE IF badSpelling THEN "spelling_rule_violation"
                   ELSE ""

\* a syllable with an initial in upper case and a final semivowel was found
\* valid
C33_Witness ==
    /\ verdict.called
    /\ verdict.onset = <<"N","g">>
    /\ verdict.nucleus = <<"a">>
    /\ verdict.coda = <<"i">>
    /\ verdict.Valid


\* C34: with w-as-vowel enabled under Telex, a w typed while the nucleus is
\* empty is shown as u+ only when (onset, u+, coda) validates; when it does
\* not validate the w stays a literal w in the preedit.
C34_BareWValidated ==
    [][(/\ Pressed(Ord("w"))
        /\ op'.modifiers = 0
        /\ phase = "typing"
        /\ inputMethod = "Telex"
        /\ config.EnableWAsVowel
        /\ syllable.Nucleus = <<>>) =>
          /\ result'.Preedit # <<>>
          /\ result'.Preedit[Len(result'.Preedit)] =
                 IF ValidateVietnamese(syllable.Onset, <<"u+">>, syllable.Coda).Valid
                 THEN "u+" ELSE "w"]_vars


\* C35: with the double-key revert under Telex, w pressed again right after a
\* w that the w-as-vowel rule turned into u+ reverts it: the second w is a
\* literal and the preedit no longer shows u+ for the pair.
C35_WRevert ==
    [][(/\ Pressed(Ord("w"))
        /\ op'.modifiers = 0
        /\ phase = "typing"
        /\ inputMethod = "Telex"
        /\ config.EnableDoubleKeyRevert
        /\ lastTransform.Type = "TransformWAsVowel"
        /\ typed # <<>>
        /\ typed[Len(typed)] = "w") =>
          /\ "u+" \notin Runes(result'.Preedit)
          /\ "w" \in Runes(result'.Preedit)]_vars


\* C36: the last transformation is cleared by every key event on an enabled
\* engine that applies no transformation itself, so a double-key revert
\* happens only when the repeated key is the very next key event after the
\* press that transformed.
C36_RevertOnlyNext ==
    [][/\ (op'.kind = "ProcessKey" /\ enabled /\ lastTransform' # NoTransform) =>
              /\ IsTyped(op'.keysym, op'.modifiers)
              /\ lastTransform'.Key = Chr[KeysymToRune(op'.keysym)]
       /\ (/\ op'.kind = "ProcessKey"
           /\ IsTyped(op'.keysym, op'.modifiers)
           /\ config.EnableDoubleKeyRevert
           /\ checkDoubleKeyRevert(Buffer, Chr[KeysymToRune(op'.keysym)], config,
                                   inputMethod).done) =>
              /\ op.kind = "ProcessKey"
              /\ op.keysym = op'.keysym
              /\ op.modifiers = op'.modifiers]_vars


\* C37: a handled Backspace removes exactly one code point from raw: raw
\* afterwards is the earlier raw without its last code point, whatever keys
\* produced it.
C37_BackspaceDropsOne ==
    [][(Pressed(KeyBackspace) /\ enabled /\ result'.Handled) =>
          raw' = SubSeq(raw, 1, Len(raw) - 1)]_vars


C39_ReplyShowsBuffer ==
    [][(op'.kind = "ProcessKey" /\ enabled) =>
          result'.Preedit = GetPreedit(raw', syllable', inputMethod')]_vars


\* C40: whenever a transformation is recorded, raw is not empty and its last
\* code point is the recorded key, under Telex and under VNI.
C40_TransformKeyEndsRaw ==
    lastTransform.Type # "TransformNone" =>
        /\ raw # <<>>
        /\ raw[Len(raw)] = lastTransform.Key

====
